---- MODULE Spec2Model ----
(***************************************************************************)
(* A model of the three-layer neural network of src/src: the Matrix value  *)
(* type (matrix.h, matrix.cpp), the sigmoid ActivationFunction             *)
(* (activation.cpp) and NeuralNetwork (neuralnet.h, neuralnet.cpp) with    *)
(* query, train, dumpWeightsToFile and loadWeightsFromFile.                *)
(*                                                                         *)
(* A double is modelled as a decimal fixed-point number: the integer v     *)
(* stands for v / Scale.  Scale keeps one decimal digit more than the      *)
(* output stream prints, so that printing a weight and parsing it back is  *)
(* a conversion that can lose something, as it is for a double.  Products  *)
(* round to nearest (ties to even) on the magnitude, as IEEE arithmetic    *)
(* does; sums and differences are exact.                                   *)
(***************************************************************************)
EXTENDS Integers, Sequences, FiniteSets, TLC

\* Layer sizes of the network under analysis (template parameters).
InputSize == 2
HiddenSize == 1
OutputSize == 2

\* Significant digits written by `stream << weights[i][j]` (the stream's
\* precision is never changed, so it is the default of std::ostream).
Precision == 6

Scale == 10 ^ (Precision + 1)
Half == 10 ^ 4

\* The network's fields, the weights file, the number of member functions
\* called so far and a record of the last call (what was called, with what,
\* what it returned and the network's fields before it); main is the
\* driver's position and locals when the driver runs the network.
VARIABLES inputWeights, hiddenWeights, learningRate, verbose, file, calls, last, main

vars == <<inputWeights, hiddenWeights, learningRate, verbose, file, calls, last, main>>

(***************************************************************************)
(* Fixed-point arithmetic.                                                 *)
(***************************************************************************)
Abs(x) == IF x < 0 THEN -x ELSE x

Sgn(x) == IF x < 0 THEN -1 ELSE 1

\* A local variable (auto x = v; ...): Body applied to the value of v, which is
\* computed once, where the variable is initialised.
Local(v, Body(_)) == CHOOSE r \in { Body(x) : x \in {v} } : TRUE

\* |a| * |b| / Scale rounded to nearest, ties to even, computed on the halves
\* of the operands so that no intermediate product leaves the integer range.
MulMag(a, b) ==
    LET ah == a \div Half
        al == a % Half
        bh == b \div Half
        bl == b % Half
        y  == al * bl
        t  == ah * bl + al * bh + (y \div Half)
        q  == ah * bh * ((Half * Half) \div Scale) + (t \div (Scale \div Half))
        r  == (t % (Scale \div Half)) * Half + (y % Half)
    IN  IF 2 * r > Scale \/ (2 * r = Scale /\ q % 2 = 1) THEN q + 1 ELSE q

\* The product of two doubles.
Mul(a, b) == Sgn(a) * Sgn(b) * MulMag(Abs(a), Abs(b))

(***************************************************************************)
(* Matrix<T, N, M>: a function from row index to (column index to entry).  *)
(***************************************************************************)
Rows(m) == Cardinality(DOMAIN m)

Cols(m) == Cardinality(DOMAIN m[0])

\* The row with the entries row[j], j = from .. M - 1, as a value of its own.
RECURSIVE RowFrom(_, _, _)
RowFrom(row, j, M) ==
    IF j = M - 1 THEN j :> row[j] ELSE (j :> row[j]) @@ RowFrom(row, j + 1, M)

\* The rows m[i], i = from .. N - 1, each as a value of its own.
RECURSIVE RowsFrom(_, _, _, _)
RowsFrom(m, i, N, M) ==
    IF i = N - 1 THEN i :> RowFrom(m[i], 0, M)
    ELSE (i :> RowFrom(m[i], 0, M)) @@ RowsFrom(m, i + 1, N, M)

\* A matrix returned by value: std::array storage of its own, every entry
\* computed once, when the result is built.
Result(N, M, m) == RowsFrom(m, 0, N, M)

\* Matrix<T, N, M> result{}: value-initialised, every entry zero.
Zero(N, M) == Result(N, M, [i \in 0 .. N - 1 |-> [j \in 0 .. M - 1 |-> 0]])

\* Transpose with result[j][i] = _matrix[i][0]: a fault that C13 excludes.
TransposeFirstColumn(m) ==
    Result(Cols(m), Rows(m),
           [j \in 0 .. Cols(m) - 1 |-> [i \in 0 .. Rows(m) - 1 |-> m[i][0]]])

\* Matrix::transpose
Transpose(m) ==
    Result(Cols(m), Rows(m),
           [j \in 0 .. Cols(m) - 1 |-> [i \in 0 .. Rows(m) - 1 |-> m[i][j]]])

\* operator-(matrix1, matrix2)
Subtract(m1, m2) ==
    Result(Rows(m1), Cols(m1),
           [i \in 0 .. Rows(m1) - 1 |->
               [j \in 0 .. Cols(m1) - 1 |-> m1[i][j] - m2[i][j]]])

\* Hadamard with matrix2[i][0] for matrix2[i][j]: a fault that C14 excludes.
HadamardFirstColumn(m1, m2) ==
    Result(Rows(m1), Cols(m1),
           [i \in 0 .. Rows(m1) - 1 |-> [j \in 0 .. Cols(m1) - 1 |->
               Mul(m1[i][j], m2[i][0])]])

\* operator^(matrix1, matrix2): the Hadamard product
Hadamard(m1, m2) ==
    Result(Rows(m1), Cols(m1),
           [i \in 0 .. Rows(m1) - 1 |->
               [j \in 0 .. Cols(m1) - 1 |-> Mul(m1[i][j], m2[i][j])]])

\* operator*(scalar, matrix)
ScalarMul(scalar, m) ==
    Result(Rows(m), Cols(m),
           [i \in 0 .. Rows(m) - 1 |->
               [j \in 0 .. Cols(m) - 1 |-> Mul(m[i][j], scalar)]])

\* The inner loop of the matrix product: result[i][j] += m1[i][k] * m2[k][j]
\* for k = from .. K - 1, starting from acc.
RECURSIVE DotLoop(_, _, _, _, _, _)
DotLoop(m1, m2, i, j, k, acc) ==
    IF k >= Cols(m1) THEN acc
    ELSE DotLoop(m1, m2, i, j, k + 1, acc + Mul(m1[i][k], m2[k][j]))

\* MatMul with the inner loop started at k = 1: a fault that C12 excludes.
MatMulFromOne(m1, m2) ==
    Result(Rows(m1), Cols(m2),
           [i \in 0 .. Rows(m1) - 1 |-> [j \in 0 .. Cols(m2) - 1 |->
               DotLoop(m1, m2, i, j, 1, 0)]])

\* operator*(matrix1, matrix2): the matrix product
MatMul(m1, m2) ==
    Result(Rows(m1), Cols(m2),
           [i \in 0 .. Rows(m1) - 1 |->
               [j \in 0 .. Cols(m2) - 1 |-> DotLoop(m1, m2, i, j, 0, 0)]])

\* operator-(matrix): negation
Negate(m) == ScalarMul(-Scale, m)

(***************************************************************************)
(* ActivationFunction (activation.cpp).                                    *)
(***************************************************************************)
\* 1 / (1 + e^-k) for k = 0, 1, 2, ...: from the last knot on the quotient
\* rounds to exactly 1, as it does for a double once e^-x drops below the
\* rounding unit.
SigmoidKnots ==
    << 5000000, 7310586, 8807971, 9525741, 9820138, 9933071, 9975274,
       9990889, 9996646, 9998766, 9999546, 9999833, 9999939, 9999977,
       9999992, 9999997, 9999999, 10000000 >>

\* 1.0 / (1.0 + std::exp(-x)) for x >= 0: the knots, interpolated linearly.
SigmoidPos(x) ==
    LET k == x \div Scale
        f == x % Scale
    IN  IF k + 1 >= Len(SigmoidKnots) THEN SigmoidKnots[Len(SigmoidKnots)]
        ELSE SigmoidKnots[k + 1] + Mul(SigmoidKnots[k + 2] - SigmoidKnots[k + 1], f)

\* auto result = 1.0 / (1.0 + std::exp(-x))
Logistic(x) == IF x >= 0 THEN SigmoidPos(x) ELSE Scale - SigmoidPos(-x)

\* Sigmoid with 1 - result returned in derivative mode: a fault that C21
\* excludes.
SigmoidComplement(x, derivative) ==
    LET result == Logistic(x)
    IN  IF derivative THEN Scale - result ELSE result

\* ActivationFunction::sigmoid(x, derivative)
Sigmoid(x, derivative) ==
    LET result == Logistic(x)
    IN  IF derivative THEN Mul(result, Scale - result) ELSE result

\* ActivationFunction::activate(matrix, derivative)
Activate(m, derivative) ==
    Result(Rows(m), Cols(m),
           [i \in 0 .. Rows(m) - 1 |->
               [j \in 0 .. Cols(m) - 1 |-> Sigmoid(m[i][j], derivative)]])

(***************************************************************************)
(* NeuralNetwork::query (neuralnet.cpp).                                   *)
(***************************************************************************)
\* The forward pass of query: the output layer's activations.
QueryOutput(iw, hw, input) ==
    LET hiddenOutput == Activate(MatMul(iw, input), FALSE)
    IN  Activate(MatMul(hw, hiddenOutput), FALSE)

\* QueryScan with the comparison `<` for `<=`: among equal outputs the last
\* index wins: a fault that C8 excludes.
RECURSIVE QueryScanLast(_, _, _)
QueryScanLast(output, i, result) ==
    IF i >= OutputSize THEN result
    ELSE IF output[i][0] < output[result][0] THEN QueryScanLast(output, i + 1, result)
    ELSE QueryScanLast(output, i + 1, i)

\* The scan for the highest output, from index i on, with the best so far.
RECURSIVE QueryScan(_, _, _)
QueryScan(output, i, result) ==
    IF i >= OutputSize THEN result
    ELSE IF output[i][0] <= output[result][0] THEN QueryScan(output, i + 1, result)
    ELSE QueryScan(output, i + 1, i)

\* NeuralNetwork::query(input)
QueryResult(iw, hw, input) == QueryScan(QueryOutput(iw, hw, input), 1, 0)

(***************************************************************************)
(* NeuralNetwork::train (neuralnet.cpp).                                   *)
(***************************************************************************)
\* TrainExample with the hidden weights updated before the hidden errors are
\* computed from them: a fault that C6 excludes.
TrainExampleUpdatedFirst(iw, hw, lr, trainingLabel) ==
    Local(MatMul(iw, trainingLabel.input), LAMBDA hiddenInput :
    Local(Activate(hiddenInput, FALSE), LAMBDA hiddenOutput :
    Local(MatMul(hw, hiddenOutput), LAMBDA outputInput :
    Local(Activate(outputInput, FALSE), LAMBDA output :
    Local(Subtract(trainingLabel.label, output), LAMBDA outputErrors :
    Local(MatMul(Hadamard(Negate(outputErrors), Activate(outputInput, TRUE)),
                 Transpose(hiddenOutput)), LAMBDA outputErrorsDerivative :
    Local(Subtract(hw, ScalarMul(lr, outputErrorsDerivative)), LAMBDA hw2 :
    Local(MatMul(Transpose(hw2), outputErrors), LAMBDA hiddenErrors :
    Local(MatMul(Hadamard(Negate(hiddenErrors), Activate(hiddenInput, TRUE)),
                 Transpose(trainingLabel.input)), LAMBDA hiddenErrorsDerivative :
    Local(Subtract(iw, ScalarMul(lr, hiddenErrorsDerivative)), LAMBDA iw2 :
        [iw |-> iw2, hw |-> hw2]))))))))))

\* The body of train's loop for one training label: the weights after it.
TrainExample(iw, hw, lr, trainingLabel) ==
    Local(MatMul(iw, trainingLabel.input), LAMBDA hiddenInput :
    Local(Activate(hiddenInput, FALSE), LAMBDA hiddenOutput :
    Local(MatMul(hw, hiddenOutput), LAMBDA outputInput :
    Local(Activate(outputInput, FALSE), LAMBDA output :
    Local(Subtract(trainingLabel.label, output), LAMBDA outputErrors :
    Local(MatMul(Transpose(hw), outputErrors), LAMBDA hiddenErrors :
    Local(MatMul(Hadamard(Negate(outputErrors), Activate(outputInput, TRUE)),
                 Transpose(hiddenOutput)), LAMBDA outputErrorsDerivative :
    Local(MatMul(Hadamard(Negate(hiddenErrors), Activate(hiddenInput, TRUE)),
                 Transpose(trainingLabel.input)), LAMBDA hiddenErrorsDerivative :
    Local(Subtract(hw, ScalarMul(lr, outputErrorsDerivative)), LAMBDA hw2 :
    Local(Subtract(iw, ScalarMul(lr, hiddenErrorsDerivative)), LAMBDA iw2 :
        [iw |-> iw2, hw |-> hw2]))))))))))

\* PrintPercentage without the test of verbose: a fault that C24 excludes.
PrintPercentageAlways(v, title, count, total) ==
    << [title |-> title, count |-> count, total |-> total] >>

\* printPercentage(title, count, total): what it writes, nothing unless verbose.
PrintPercentage(v, title, count, total) ==
    IF ~v THEN << >> ELSE << [title |-> title, count |-> count, total |-> total] >>

\* endPercentage(): the line break, nothing unless verbose.
EndPercentage(v) == IF ~v THEN << >> ELSE << [title |-> "end", count |-> 0, total |-> 0] >>

\* Nothing written, no weights assigned yet.
NoLog == [out |-> << >>, steps |-> << >>, order |-> << >>]

\* TrainLoop with the loop ended one label early: a fault that C7 excludes.
RECURSIVE TrainLoopShort(_, _, _, _, _, _, _)
TrainLoopShort(iw, hw, lr, v, trainingSet, k, log) ==
    IF k >= Len(trainingSet)
    THEN Local(EndPercentage(v), LAMBDA printed :
             [iw |-> iw, hw |-> hw, out |-> log.out \o printed, steps |-> log.steps,
              order |-> log.order \o [e \in DOMAIN printed |-> "console"]])
    ELSE Local(TrainExample(iw, hw, lr, trainingSet[k]), LAMBDA w :
         Local(PrintPercentage(v, "Training Network", k, Len(trainingSet)),
               LAMBDA printed :
         Local([out   |-> log.out \o printed,
                steps |-> Append(log.steps, w),
                order |-> log.order \o << "weights" >>
                              \o [e \in DOMAIN printed |-> "console"]], LAMBDA log2 :
             TrainLoopShort(w.iw, w.hw, lr, v, trainingSet, k + 1, log2))))

\* train's loop from position k of the training set (labelNumber = k), with
\* the weights so far and log = [out, steps, order]: the console output so
\* far, the weights as they stood after each label processed so far, and
\* the order in which the weights were assigned and the console written.
RECURSIVE TrainLoop(_, _, _, _, _, _, _)
TrainLoop(iw, hw, lr, v, trainingSet, k, log) ==
    IF k > Len(trainingSet)
    THEN Local(EndPercentage(v), LAMBDA printed :
             [iw |-> iw, hw |-> hw, out |-> log.out \o printed, steps |-> log.steps,
              order |-> log.order \o [e \in DOMAIN printed |-> "console"]])
    ELSE Local(TrainExample(iw, hw, lr, trainingSet[k]), LAMBDA w :
         Local(PrintPercentage(v, "Training Network", k, Len(trainingSet)),
               LAMBDA printed :
         Local([out   |-> log.out \o printed,
                steps |-> Append(log.steps, w),
                order |-> log.order \o << "weights" >>
                              \o [e \in DOMAIN printed |-> "console"]], LAMBDA log2 :
             TrainLoop(w.iw, w.hw, lr, v, trainingSet, k + 1, log2))))

\* TrainResult with the last label left out when the progress is printed: a
\* fault that C18 excludes.
TrainResultVerboseShort(iw, hw, lr, v, trainingSet) ==
    IF v
    THEN TrainLoopShort(iw, hw, lr, v, trainingSet, 1, NoLog)
    ELSE TrainLoop(iw, hw, lr, v, trainingSet, 1, NoLog)

\* NeuralNetwork::train(trainingSet): the weights and the console output.
TrainResult(iw, hw, lr, v, trainingSet) ==
    TrainLoop(iw, hw, lr, v, trainingSet, 1, NoLog)

(***************************************************************************)
(* Text of the weights file: a sequence of one-character strings.          *)
(***************************************************************************)
DigitChars == << "0", "1", "2", "3", "4", "5", "6", "7", "8", "9" >>

IsDigit(c) == \E d \in 1 .. Len(DigitChars) : DigitChars[d] = c

DigitVal(c) == (CHOOSE d \in 1 .. Len(DigitChars) : DigitChars[d] = c) - 1

\* std::isspace for the characters that occur
IsSpace(c) == c \in {" ", "\n"}

RECURSIVE NumDigits(_)
NumDigits(n) == IF n < 10 THEN 1 ELSE 1 + NumDigits(n \div 10)

\* The decimal digits of n >= 0, most significant first.
RECURSIVE DigitsOf(_)
DigitsOf(n) ==
    IF n < 10 THEN << DigitChars[n + 1] >>
    ELSE DigitsOf(n \div 10) \o << DigitChars[(n % 10) + 1] >>

\* n >= 0 written with at least width digits.
RECURSIVE PadDigits(_, _)
PadDigits(n, width) ==
    IF NumDigits(n) >= width THEN DigitsOf(n)
    ELSE << "0" >> \o PadDigits(n, width - 1)

RECURSIVE StripZeros(_)
StripZeros(ds) ==
    IF ds # << >> /\ ds[Len(ds)] = "0" THEN StripZeros(SubSeq(ds, 1, Len(ds) - 1))
    ELSE ds

RECURSIVE Zeros(_)
Zeros(n) == IF n <= 0 THEN << >> ELSE << "0" >> \o Zeros(n - 1)

\* a / d rounded to nearest, ties to even (a >= 0, d > 0).
RoundDiv(a, d) ==
    LET q == a \div d
        r == a % d
    IN  IF 2 * r > d \/ (2 * r = d /\ q % 2 = 1) THEN q + 1 ELSE q

(***************************************************************************)
(* stream << weights[i][j]: a double written with the stream's default     *)
(* format (that of printf's %g) and default precision.                     *)
(***************************************************************************)
\* The fractional digits after the first `lead` digits of ds, with the
\* decimal point, trailing zeros dropped (and the point with them).
FractionOf(ds, lead) ==
    LET fr == StripZeros(SubSeq(ds, lead + 1, Len(ds)))
    IN  IF fr = << >> THEN << >> ELSE << "." >> \o fr

FormatMagnitude(a) ==
    LET nd   == NumDigits(a)
        r0   == IF nd > Precision THEN RoundDiv(a, 10 ^ (nd - Precision))
                ELSE a * 10 ^ (Precision - nd)
        over == r0 = 10 ^ Precision
        r    == IF over THEN 10 ^ (Precision - 1) ELSE r0
        \* the decimal exponent of the rounded value
        x    == (nd - 1) - (Precision + 1) + (IF over THEN 1 ELSE 0)
        ds   == DigitsOf(r)
    IN  IF x < -4 \/ x >= Precision
        THEN SubSeq(ds, 1, 1) \o FractionOf(ds, 1) \o << "e" >>
             \o (IF x < 0 THEN << "-" >> ELSE << "+" >>) \o PadDigits(Abs(x), 2)
        ELSE IF x >= 0
        THEN SubSeq(ds, 1, x + 1) \o FractionOf(ds, x + 1)
        ELSE << "0", "." >> \o Zeros(-x - 1) \o StripZeros(ds)

FormatDouble(v) ==
    IF v = 0 THEN << "0" >>
    ELSE (IF v < 0 THEN << "-" >> ELSE << >>) \o FormatMagnitude(Abs(v))

(***************************************************************************)
(* std::stod(token).                                                       *)
(***************************************************************************)
\* Decimal exponents a double holds (DBL_MAX_10_EXP, DBL_MIN_10_EXP).
DoubleMax10Exp == 308
DoubleMin10Exp == -307

RECURSIVE SkipSpace(_, _)
SkipSpace(t, i) == IF i <= Len(t) /\ IsSpace(t[i]) THEN SkipSpace(t, i + 1) ELSE i

\* The end of the run of digits of t that starts at i.
RECURSIVE DigitsEnd(_, _)
DigitsEnd(t, i) == IF i <= Len(t) /\ IsDigit(t[i]) THEN DigitsEnd(t, i + 1) ELSE i

\* The number written by the digits t[i .. j - 1] (0 for none).
RECURSIVE DigitsValue(_, _, _, _)
DigitsValue(t, i, j, acc) ==
    IF i >= j THEN acc ELSE DigitsValue(t, i + 1, j, acc * 10 + DigitVal(t[i]))

\* m * 10^p in units of 1 / Scale, rounded to nearest.
ScaleBy(m, p) ==
    IF m = 0 THEN 0
    ELSE IF p >= 0 THEN m * 10 ^ p
    ELSE IF -p > NumDigits(m) + 1 THEN 0
    ELSE RoundDiv(m, 10 ^ (-p))

\* std::stod(token): the longest prefix of the token that is a decimal
\* floating-point literal, after leading white space.  What follows the
\* prefix is ignored.  kind is "ok" with the value, "invalid_argument" when
\* no conversion could be performed, "out_of_range" when the value is not
\* representable.
\* end is the index after the prefix that was converted.
StodValue(t, neg, i0, i1, f0, f1, e1, e2, eNeg) ==
    Local(DigitsValue(t, f0, f1, DigitsValue(t, i0, i1, 0)), LAMBDA mant :
    Local(IF e2 > e1 THEN (IF eNeg THEN -1 ELSE 1) * DigitsValue(t, e1, e2, 0) ELSE 0,
          LAMBDA ex :
    \* the decimal exponent of the leading digit of the value
    Local(NumDigits(mant) - 1 - (f1 - f0) + ex, LAMBDA top :
        IF (i1 - i0) + (f1 - f0) = 0
        THEN [kind |-> "invalid_argument", value |-> 0, end |-> 1]
        ELSE IF mant # 0 /\ (top > DoubleMax10Exp \/ top < DoubleMin10Exp)
        THEN [kind |-> "out_of_range", value |-> 0, end |-> IF e2 > e1 THEN e2 ELSE f1]
        ELSE Local(ScaleBy(mant, ex - (f1 - f0) + Precision + 1), LAMBDA mag :
                 [kind |-> "ok", value |-> IF neg THEN -mag ELSE mag,
                  end |-> IF e2 > e1 THEN e2 ELSE f1]))))

Stod(t) ==
    Local(SkipSpace(t, 1), LAMBDA s :
    Local(IF s <= Len(t) /\ t[s] \in {"-", "+"} THEN s + 1 ELSE s, LAMBDA i0 :
    Local(DigitsEnd(t, i0), LAMBDA i1 :
    Local(IF i1 <= Len(t) /\ t[i1] = "." THEN i1 + 1 ELSE i1, LAMBDA f0 :
    Local(DigitsEnd(t, f0), LAMBDA f1 :
    Local(IF f1 <= Len(t) /\ t[f1] = "e" THEN f1 + 1 ELSE f1, LAMBDA e0 :
    Local(IF e0 > f1 /\ e0 <= Len(t) /\ t[e0] \in {"-", "+"} THEN e0 + 1 ELSE e0,
          LAMBDA e1 :
        StodValue(t, s <= Len(t) /\ t[s] = "-", i0, i1, f0, f1, e1,
                  IF e0 > f1 THEN DigitsEnd(t, e1) ELSE e1,
                  e0 > f1 /\ e0 <= Len(t) /\ t[e0] = "-"))))))))

(***************************************************************************)
(* File streams.  A file is [exists, writable, data]; an input stream is   *)
(* [data, pos, eof, fail] with pos the index of the next character.        *)
(* Neither stream has exceptions enabled (no call of exceptions()), so a   *)
(* failed open, read or write only sets the stream's state bits.           *)
(***************************************************************************)
\* std::ifstream stream{file}
OpenIn(f) ==
    [data |-> IF f.exists THEN f.data ELSE << >>, pos |-> 1,
     eof |-> FALSE, fail |-> ~f.exists]

\* The index of the first delimiter of data at or after i (Len + 1 for none).
RECURSIVE FindDelim(_, _, _)
FindDelim(data, i, delim) ==
    IF i > Len(data) \/ data[i] = delim THEN i ELSE FindDelim(data, i + 1, delim)

\* std::getline(stream, token, delim): the stream and the token after it.
\* A stream that is not good() fails the sentry: the token is left as it was.
GetLine(stream, token, delim) ==
    IF stream.eof \/ stream.fail
    THEN [stream |-> [stream EXCEPT !.fail = TRUE], token |-> token]
    ELSE Local(FindDelim(stream.data, stream.pos, delim), LAMBDA d :
             [stream |-> [stream EXCEPT
                              !.pos  = IF d > Len(stream.data) THEN d ELSE d + 1,
                              !.eof  = d > Len(stream.data),
                              !.fail = d > Len(stream.data) /\ d = stream.pos],
              token  |-> SubSeq(stream.data, stream.pos, d - 1)])

(***************************************************************************)
(* NeuralNetwork::loadMatrix and loadWeightsFromFile.                      *)
(***************************************************************************)
\* weights[i][j] = value
SetEntry(weights, i, j, value) == [weights EXCEPT ![i][j] = value]

\* loadMatrix's loops from entry number e (row-major) on.  exc is "none", or
\* the exception std::stod threw, which ends the loops where it is thrown.
RECURSIVE LoadLoop(_, _, _, _)
LoadLoop(stream, weights, token, e) ==
    IF e >= Rows(weights) * Cols(weights)
    THEN [stream |-> stream, weights |-> weights, exc |-> "none"]
    ELSE Local(GetLine(stream, token, " "), LAMBDA g :
         Local(Stod(g.token), LAMBDA d :
             IF d.kind # "ok"
             THEN [stream |-> g.stream, weights |-> weights, exc |-> d.kind]
             ELSE Local(SetEntry(weights, e \div Cols(weights), e % Cols(weights), d.value),
                        LAMBDA assigned : LoadLoop(g.stream, assigned, g.token, e + 1))))

\* NeuralNetwork::loadMatrix(title, stream, weights)
LoadMatrix(stream, weights) == LoadLoop(stream, weights, << >>, 0)

\* NeuralNetwork::loadWeightsFromFile(file): the weights after the call and
\* how it ends: ret is "true" or "false", or "throws" when an exception that
\* no handler of the function catches leaves it.
LoadWeightsFromFile(iw, hw, f) ==
    Local(LoadMatrix(OpenIn(f), iw), LAMBDA m1 :
        IF m1.exc # "none"
        THEN [iw |-> m1.weights, hw |-> hw, stream |-> m1.stream,
              ret |-> IF m1.exc = "invalid_argument" THEN "false" ELSE "throws"]
        ELSE Local(LoadMatrix(m1.stream, hw), LAMBDA m2 :
            IF m2.exc # "none"
            THEN [iw |-> m1.weights, hw |-> m2.weights, stream |-> m2.stream,
                  ret |-> IF m2.exc = "invalid_argument" THEN "false" ELSE "throws"]
            ELSE [iw |-> m1.weights, hw |-> m2.weights, stream |-> m2.stream,
                  ret |-> "true"]))

(***************************************************************************)
(* NeuralNetwork::dumpMatrix and dumpWeightsToFile.                        *)
(***************************************************************************)
\* DumpLoop with the space written between the entries only, none after the
\* last: a fault that C19 excludes.
RECURSIVE DumpLoopSeparated(_, _)
DumpLoopSeparated(weights, e) ==
    IF e >= Rows(weights) * Cols(weights) THEN << >>
    ELSE FormatDouble(weights[e \div Cols(weights)][e % Cols(weights)])
         \o (IF e + 1 < Rows(weights) * Cols(weights) THEN << " " >> ELSE << >>)
         \o DumpLoopSeparated(weights, e + 1)

\* dumpMatrix's loops from entry number e (row-major) on: the text written.
RECURSIVE DumpLoop(_, _)
DumpLoop(weights, e) ==
    IF e >= Rows(weights) * Cols(weights) THEN << >>
    ELSE FormatDouble(weights[e \div Cols(weights)][e % Cols(weights)]) \o << " " >>
         \o DumpLoop(weights, e + 1)

\* NeuralNetwork::dumpMatrix(title, stream, weights)
DumpMatrix(weights) == DumpLoop(weights, 0)

\* What dumpWeightsToFile writes to the stream.
DumpText(iw, hw) == DumpMatrix(iw) \o << "\n" >> \o DumpMatrix(hw)

\* NeuralNetwork::dumpWeightsToFile(file): the file after the call and the
\* value returned.  std::ofstream stream{file} truncates the file when it can
\* be opened; when it cannot, every write is a no-op on a failed stream.
DumpWeightsToFile(iw, hw, f) ==
    IF f.writable
    THEN [file |-> [f EXCEPT !.exists = TRUE, !.data = DumpText(iw, hw)], ret |-> TRUE]
    ELSE [file |-> f, ret |-> TRUE]

(***************************************************************************)
(* Matrix::operator[] followed by std::array::operator[]: m[i][j].         *)
(***************************************************************************)
\* What a read of row i past its last column can find: the entry that lies
\* there in the contiguous storage, or whatever follows the matrix.
StrayValues(m, i, j) ==
    LET e == i * Cols(m) + j
    IN  IF e < Rows(m) * Cols(m) THEN {m[e \div Cols(m)][e % Cols(m)]} ELSE {0, Scale}

\* At with the row check `idx > N` for `idx >= N`: a fault that C10 excludes.
AtOffByOne(m, i, j) ==
    IF i > Rows(m) THEN {[kind |-> "out_of_range", value |-> 0]}
    ELSE IF i < Rows(m) /\ j < Cols(m) THEN {[kind |-> "ok", value |-> m[i][j]]}
    ELSE {[kind |-> "ok", value |-> v] : v \in StrayValues(m, i, j)}
         \cup {[kind |-> "crash", value |-> 0]}

\* The outcomes of m[i][j].  The row index is checked and throws
\* std::out_of_range; the column index is an unchecked array subscript,
\* undefined behaviour past the row's end.
At(m, i, j) ==
    IF i >= Rows(m) THEN {[kind |-> "out_of_range", value |-> 0]}
    ELSE IF j < Cols(m) THEN {[kind |-> "ok", value |-> m[i][j]]}
    ELSE {[kind |-> "ok", value |-> v] : v \in StrayValues(m, i, j)}
         \cup {[kind |-> "crash", value |-> 0]}

(***************************************************************************)
(* The element accesses the loops of the operations, of query and of train *)
(* make: each reads or writes m[i][j] for the indices of its loops.        *)
(***************************************************************************)
\* The access m[i][j].
Touch(m, i, j) == [m |-> m, i |-> i, j |-> j]

\* for (i < N) for (j < M): an access of every entry of each N x M matrix
\* of ms.
EntryAccesses(ms, N, M) ==
    { Touch(m, i, j) : m \in ms, i \in 0 .. N - 1, j \in 0 .. M - 1 }

\* Matrix::transpose: result[j][i] = _matrix[i][j] for i < N, j < M.
TransposeAccesses(m) ==
    EntryAccesses({m}, Rows(m), Cols(m))
        \cup { Touch(Transpose(m), j, i) : i \in 0 .. Rows(m) - 1, j \in 0 .. Cols(m) - 1 }

\* MatMulAccesses with the inner loop run to k <= K: a fault that C16
\* excludes.
MatMulAccessesInclusive(m1, m2) ==
    { Touch(MatMul(m1, m2), i, j) : i \in 0 .. Rows(m1) - 1, j \in 0 .. Cols(m2) - 1 }
        \cup { Touch(m1, i, k) : i \in 0 .. Rows(m1) - 1, k \in 0 .. Cols(m1) }
        \cup { Touch(m2, k, j) : k \in 0 .. Cols(m1), j \in 0 .. Cols(m2) - 1 }

\* operator*(matrix1, matrix2): result[i][j] += matrix1[i][k] * matrix2[k][j]
\* for i < N, j < M, k < K, with <N, K> the shape of matrix1 and M the
\* columns of matrix2.
MatMulAccesses(m1, m2) ==
    { Touch(MatMul(m1, m2), i, j) : i \in 0 .. Rows(m1) - 1, j \in 0 .. Cols(m2) - 1 }
        \cup { Touch(m1, i, k) : i \in 0 .. Rows(m1) - 1, k \in 0 .. Cols(m1) - 1 }
        \cup { Touch(m2, k, j) : k \in 0 .. Cols(m1) - 1, j \in 0 .. Cols(m2) - 1 }

\* NeuralNetwork::query: the two products and activations, then the scan of
\* output[i][0] against output[result][0] for 1 <= i < OutputSize.
QueryAccesses(iw, hw, input) ==
    Local(MatMul(iw, input), LAMBDA hiddenInput :
    Local(Activate(hiddenInput, FALSE), LAMBDA hiddenOutput :
    Local(MatMul(hw, hiddenOutput), LAMBDA outputInput :
    Local(Activate(outputInput, FALSE), LAMBDA output :
        MatMulAccesses(iw, input)
            \cup EntryAccesses({hiddenInput, hiddenOutput}, HiddenSize, 1)
            \cup MatMulAccesses(hw, hiddenOutput)
            \cup EntryAccesses({outputInput, output}, OutputSize, 1)
            \cup { Touch(output, i, 0) : i \in 1 .. OutputSize - 1 }
            \cup { Touch(output, result, 0) : result \in 0 .. OutputSize - 2 }))))

\* The body of train's loop: the accesses of each of its operations.
TrainExampleAccesses(iw, hw, lr, trainingLabel) ==
    Local(MatMul(iw, trainingLabel.input), LAMBDA hiddenInput :
    Local(Activate(hiddenInput, FALSE), LAMBDA hiddenOutput :
    Local(MatMul(hw, hiddenOutput), LAMBDA outputInput :
    Local(Activate(outputInput, FALSE), LAMBDA output :
    Local(Subtract(trainingLabel.label, output), LAMBDA outputErrors :
    Local(MatMul(Transpose(hw), outputErrors), LAMBDA hiddenErrors :
    Local(Hadamard(Negate(outputErrors), Activate(outputInput, TRUE)), LAMBDA outputSlope :
    Local(Hadamard(Negate(hiddenErrors), Activate(hiddenInput, TRUE)), LAMBDA hiddenSlope :
    Local(MatMul(outputSlope, Transpose(hiddenOutput)), LAMBDA outputErrorsDerivative :
    Local(MatMul(hiddenSlope, Transpose(trainingLabel.input)),
          LAMBDA hiddenErrorsDerivative :
        MatMulAccesses(iw, trainingLabel.input)
            \cup EntryAccesses({hiddenInput, hiddenOutput, Activate(hiddenInput, TRUE),
                                hiddenErrors, Negate(hiddenErrors), hiddenSlope},
                               HiddenSize, 1)
            \cup MatMulAccesses(hw, hiddenOutput)
            \cup EntryAccesses({outputInput, output, trainingLabel.label, outputErrors,
                                Negate(outputErrors), Activate(outputInput, TRUE),
                                outputSlope},
                               OutputSize, 1)
            \cup TransposeAccesses(hw)
            \cup MatMulAccesses(Transpose(hw), outputErrors)
            \cup TransposeAccesses(hiddenOutput)
            \cup MatMulAccesses(outputSlope, Transpose(hiddenOutput))
            \cup TransposeAccesses(trainingLabel.input)
            \cup MatMulAccesses(hiddenSlope, Transpose(trainingLabel.input))
            \cup EntryAccesses({hw, outputErrorsDerivative,
                                ScalarMul(lr, outputErrorsDerivative)},
                               OutputSize, HiddenSize)
            \cup EntryAccesses({iw, hiddenErrorsDerivative,
                                ScalarMul(lr, hiddenErrorsDerivative)},
                               HiddenSize, InputSize)))))))))))

(***************************************************************************)
(* Matrix::randomMatrix and the construction of the network.               *)
(***************************************************************************)
\* Values dis(gen) can return, in the order a generator state yields them.
Draws == << 0, 1234567, 1234567, -5000000, 9999999 >>

Seeds == 0 .. Len(Draws) - 1

\* The n-th value the generator seeded with seed draws.
DrawAt(seed, n) == Draws[((seed + n) % Len(Draws)) + 1]

\* RandomEntry without the replacement of a drawn 0: a fault that C15
\* excludes.
RandomEntryRaw(draw) == draw

\* result[i][j] = dis(gen); if (result[i][j] == 0) result[i][j] += 0.01;
RandomEntry(draw) == IF draw = 0 THEN draw + Scale \div 100 ELSE draw

\* Matrix::randomMatrix<N, M>() with the generator seeded by rd() = seed.
RandomMatrix(N, M, seed) ==
    Result(N, M,
           [i \in 0 .. N - 1 |-> [j \in 0 .. M - 1 |-> RandomEntry(DrawAt(seed, i * M + j))]])

(***************************************************************************)
(* The driver's training records (main.cpp).                               *)
(***************************************************************************)
\* normalizePixel(pixel) = (pixel / 255.0) * 0.99 + 0.01
NormalizePixel(pixel) ==
    Mul(((pixel * (Scale \div 10)) \div 255) * 10, 99 * (Scale \div 100)) + Scale \div 100

\* parseInput: the training label of a record's class and pixels.
ParseInput(value, pixels) ==
    [value |-> value,
     label |-> Result(OutputSize, 1,
                      [i \in 0 .. OutputSize - 1 |->
                          [c \in {0} |-> IF value = i THEN Scale ELSE Scale \div 100]]),
     input |-> Result(InputSize, 1,
                      [i \in 0 .. InputSize - 1 |-> [c \in {0} |-> NormalizePixel(pixels[i])]])]

\* The records the driver reads from its input: record p has class p and an
\* image whose only lit pixel is pixel p (mod InputSize).
Records ==
    [p \in 1 .. OutputSize |->
        ParseInput(p - 1, [i \in 0 .. InputSize - 1 |->
                              IF i = (p - 1) % InputSize THEN 255 ELSE 0])]

TrainingLabels == { Records[p] : p \in 1 .. OutputSize }

\* The sequences over S of length at most n.
RECURSIVE SeqsUpTo(_, _)
SeqsUpTo(S, n) ==
    IF n = 0 THEN {<< >>}
    ELSE LET shorter == SeqsUpTo(S, n - 1)
         IN  shorter \cup { Append(q, x) : q \in shorter, x \in S }

\* The longest training set passed to train.
MaxSetLen == 2

TrainingSets == SeqsUpTo(TrainingLabels, MaxSetLen)

\* parseTrainingSet(): the driver's training set, the records in the order
\* read (all of them, or none when the input is empty).
DriverSets == { << >>, Records }

QueryInputs == { t.input : t \in TrainingLabels }

\* const double learningRate = 0.3 (main.cpp)
LearningRate == 3 * (Scale \div 10)

(***************************************************************************)
(* The state machine: a network, the weights file, and their callers.      *)
(***************************************************************************)
NoFile == [exists |-> FALSE, writable |-> TRUE, data |-> << >>]

\* The network's fields, as they are before a call.
Fields ==
    [iw |-> inputWeights, hw |-> hiddenWeights, lr |-> learningRate, verbose |-> verbose]

\* An exception that left loadWeightsFromFile is caught nowhere in the
\* driver: the program ends there.
Terminated == last.op = "load" /\ last.ret = "throws"

\* NeuralNetwork::NeuralNetwork(learningRate, verbose), each weight matrix
\* drawn by a generator of its own (seeds s1, s2).
Construct(s1, s2) ==
    /\ learningRate = LearningRate
    /\ verbose \in BOOLEAN
    /\ inputWeights = RandomMatrix(HiddenSize, InputSize, s1)
    /\ hiddenWeights = RandomMatrix(OutputSize, HiddenSize, s2)
    /\ file = NoFile
    /\ calls = 0
    /\ last = [op |-> "construct"]

\* Query adapting the hidden weights to the input it answered: a fault that
\* C17 excludes.
QueryAdapting(input) ==
    /\ ~Terminated
    /\ last' = [op |-> "query", input |-> input, pre |-> Fields,
                ret |-> QueryResult(inputWeights, hiddenWeights, input)]
    /\ hiddenWeights' = Negate(hiddenWeights)
    /\ UNCHANGED <<inputWeights, learningRate, verbose, file, calls, main>>

\* network.query(input)
Query(input) ==
    /\ ~Terminated
    /\ last' = [op |-> "query", input |-> input, pre |-> Fields,
                ret |-> QueryResult(inputWeights, hiddenWeights, input)]
    /\ UNCHANGED <<inputWeights, hiddenWeights, learningRate, verbose, file, calls, main>>

\* network.train(trainingSet), while fewer than limit calls of train and
\* loadWeightsFromFile were made.
Train(trainingSet, limit) ==
    /\ ~Terminated
    /\ calls < limit
    /\ \E r \in {TrainResult(inputWeights, hiddenWeights, learningRate, verbose,
                            trainingSet)} :
           /\ inputWeights' = r.iw
           /\ hiddenWeights' = r.hw
           /\ last' = [op |-> "train", trainingSet |-> trainingSet, pre |-> Fields,
                       out |-> r.out, steps |-> r.steps,
                       order |-> r.order]
    /\ calls' = calls + 1
    /\ UNCHANGED <<learningRate, verbose, file, main>>

\* Dump with the weights left as they were printed: a fault that C9 excludes.
DumpRounding ==
    /\ ~Terminated
    /\ \E r \in {DumpWeightsToFile(inputWeights, hiddenWeights, file)} :
           /\ file' = r.file
           /\ last' = [op |-> "dump", pre |-> Fields, ret |-> r.ret, before |-> file]
    /\ inputWeights' = [i \in DOMAIN inputWeights |-> [j \in DOMAIN inputWeights[i] |->
                           Stod(FormatDouble(inputWeights[i][j])).value]]
    /\ UNCHANGED <<hiddenWeights, learningRate, verbose, calls, main>>

\* network.dumpWeightsToFile(weightsFile)
Dump ==
    /\ ~Terminated
    /\ \E r \in {DumpWeightsToFile(inputWeights, hiddenWeights, file)} :
           /\ file' = r.file
           /\ last' = [op |-> "dump", pre |-> Fields, ret |-> r.ret, before |-> file]
    /\ UNCHANGED <<inputWeights, hiddenWeights, learningRate, verbose, calls, main>>

\* network.loadWeightsFromFile(weightsFile), while fewer than limit calls of
\* train and loadWeightsFromFile were made.
Load(limit) ==
    /\ ~Terminated
    /\ calls < limit
    /\ \E r \in {LoadWeightsFromFile(inputWeights, hiddenWeights, file)} :
           /\ inputWeights' = r.iw
           /\ hiddenWeights' = r.hw
           /\ last' = [op |-> "load", pre |-> Fields, ret |-> r.ret,
                       exists |-> file.exists, content |-> file.data,
                       consumed |-> r.stream.pos - 1]
    /\ calls' = calls + 1
    /\ UNCHANGED <<learningRate, verbose, file, main>>

\* Something else writes the weights file, while fewer than limit calls of
\* train and loadWeightsFromFile were made.
WriteFile(content, limit) ==
    /\ ~Terminated
    /\ calls < limit
    /\ file.writable
    /\ file' = [file EXCEPT !.exists = TRUE, !.data = content]
    /\ UNCHANGED <<inputWeights, hiddenWeights, learningRate, verbose, calls, last, main>>

\* Something else appends a piece of text to the weights file (creating it),
\* before the network reads it; the texts that come of it are those of
\* `contents'.
AppendFile(piece, contents) ==
    /\ ~Terminated
    /\ calls = 0
    /\ file.writable
    /\ (file.data \o piece) \in contents
    /\ file' = [file EXCEPT !.exists = TRUE, !.data = file.data \o piece]
    /\ UNCHANGED <<inputWeights, hiddenWeights, learningRate, verbose, calls, last, main>>

\* Something else removes the weights file.
RemoveFile ==
    /\ ~Terminated
    /\ file.exists /\ file.writable
    /\ file' = NoFile
    /\ UNCHANGED <<inputWeights, hiddenWeights, learningRate, verbose, calls, last, main>>

\* The weights file (or its directory) becomes read-only, or writable again.
SetWritable(w) ==
    /\ ~Terminated
    /\ file.writable # w
    /\ file' = [file EXCEPT !.writable = w]
    /\ UNCHANGED <<inputWeights, hiddenWeights, learningRate, verbose, calls, last, main>>

\* A read of weights[i][j] of one of the weight matrices by a caller.
Access(name, i, j) ==
    /\ \E r \in At(IF name = "inputWeights" THEN inputWeights ELSE hiddenWeights, i, j) :
          last' = [op |-> "at", matrix |-> name, i |-> i, j |-> j, result |-> r]
    /\ UNCHANGED <<inputWeights, hiddenWeights, learningRate, verbose, file, calls, main>>

\* The generator seeds of the networks constructed.
SeedPairs == { <<0, 1>>, <<1, 0>>, <<3, 2>> }

\* The driver's position and locals, when the network is not run by the
\* driver.
NoMain == [pc |-> "none"]

Init == (\E p \in SeedPairs : Construct(p[1], p[2])) /\ main = NoMain

(***************************************************************************)
(* Spec: a network used as the driver uses it (train on the records read,  *)
(* dump, load, query), with a weights file that holds what the network     *)
(* dumped, or one of a few other texts.                                    *)
(***************************************************************************)
\* Calls of train and loadWeightsFromFile made on one network.
MaxCalls == 2

FewContents ==
    { << "1", " ", "2", " ", "\n", "1", " ", "1", " " >>,
      << "1", " ", "x", " " >> }

Next ==
    \/ \E input \in QueryInputs : Query(input)
    \/ \E trainingSet \in DriverSets : Train(trainingSet, MaxCalls)
    \/ Dump
    \/ Load(MaxCalls)
    \/ \E content \in FewContents : WriteFile(content, MaxCalls)
    \/ RemoveFile
    \/ \E w \in BOOLEAN : SetWritable(w)

Spec == Init /\ [][Next]_vars

(***************************************************************************)
(* SpecNet: train and query as functions of the weights: one call of train *)
(* on a freshly constructed network, with any training set, and queries    *)
(* before and after it.                                                    *)
(***************************************************************************)
NextNet ==
    \/ \E input \in QueryInputs : Query(input)
    \/ \E trainingSet \in TrainingSets : Train(trainingSet, 1)

SpecNet == Init /\ [][NextNet]_vars

(***************************************************************************)
(* SpecPersist: the weights file read and written: one call of             *)
(* loadWeightsFromFile on a network, of a file that holds what the network *)
(* dumped or any text put together from a few pieces.                      *)
(***************************************************************************)
\* Pieces of file text: a number with the separator after it and one
\* without, text that is no number, a number followed by other characters, a
\* number no double holds, and the line break.
Pieces ==
    { << "1", " " >>, << ".", "5" >>, << "x", " " >>, << "1", "x", " " >>,
      << "1", "e", "9", "9", "9", " " >>, << "\n" >> }

\* The texts made of at most n pieces.
RECURSIVE Texts(_)
Texts(n) ==
    IF n = 0 THEN {<< >>}
    ELSE LET shorter == Texts(n - 1)
         IN  shorter \cup { c \o p : c \in shorter, p \in Pieces }

\* The most pieces in a file's text.
MaxPieces == 5

Contents == Texts(MaxPieces)

NextPersist ==
    \/ Dump
    \/ Load(1)
    \/ \E piece \in Pieces : AppendFile(piece, Contents)

SpecPersist == Init /\ [][NextPersist]_vars

(***************************************************************************)
(* SpecMatrix: entries of the network's matrices read at any indices.      *)
(***************************************************************************)
Indices == 0 .. InputSize + OutputSize

NextMatrix ==
    \E name \in {"inputWeights", "hiddenWeights"}, i \in Indices, j \in Indices :
        Access(name, i, j)

SpecMatrix == Init /\ [][NextMatrix]_vars

(***************************************************************************)
(* SpecOps: the matrix operations applied, by a caller, to matrices of the *)
(* shapes the network computes with.                                       *)
(***************************************************************************)
MatrixOps ==
    {"transpose", "subtract", "hadamard", "scale", "multiply", "negate", "activate"}

\* The template arguments <N, M> of the matrices of query and train: the
\* weights, the input column and the label column.
Shapes ==
    { <<HiddenSize, InputSize>>, <<OutputSize, HiddenSize>>,
      <<InputSize, 1>>, <<OutputSize, 1>> }

\* Matrices of a shape, as randomMatrix makes them.
Operands(shape) == { RandomMatrix(shape[1], shape[2], seed) : seed \in Seeds }

\* The operand types for which the operation's template is instantiated: any
\* other call does not compile.
WellTyped(op, a, b) ==
    CASE op \in {"subtract", "hadamard"} -> Rows(a) = Rows(b) /\ Cols(a) = Cols(b)
      [] op = "multiply"                 -> Cols(a) = Rows(b)
      [] OTHER                           -> a = b

\* Operation with the elementwise operations computed in their left operand,
\* which is then returned: a fault that C11 excludes.
OperationInPlace(op, a, b) ==
    LET r == CASE op = "transpose" -> Transpose(a)
               [] op = "subtract"  -> Subtract(a, b)
               [] op = "hadamard"  -> Hadamard(a, b)
               [] op = "scale"     -> ScalarMul(LearningRate, a)
               [] op = "multiply"  -> MatMul(a, b)
               [] op = "negate"    -> Negate(a)
               [] op = "activate"  -> Activate(a, FALSE)
    IN  [left   |-> IF op \in {"transpose", "multiply"} THEN a ELSE r,
         right  |-> IF a = b /\ op \notin {"transpose", "multiply"} THEN r ELSE b,
         result |-> r]

\* The operation op on the operands a and b (b is a itself for the
\* operations of one operand): the operands after the call, which takes them
\* by reference to const, and the matrix returned by value.
Operation(op, a, b) ==
    [left |-> a, right |-> b,
     result |-> CASE op = "transpose" -> Transpose(a)
                  [] op = "subtract"  -> Subtract(a, b)
                  [] op = "hadamard"  -> Hadamard(a, b)
                  [] op = "scale"     -> ScalarMul(LearningRate, a)
                  [] op = "multiply"  -> MatMul(a, b)
                  [] op = "negate"    -> Negate(a)
                  [] op = "activate"  -> Activate(a, FALSE)]

\* A caller's first use of a matrix operation: auto result = a op b.
Operate(op, a, b) ==
    /\ last.op = "construct"
    /\ WellTyped(op, a, b)
    /\ \E r \in {Operation(op, a, b)} :
           last' = [op |-> op, a |-> a, b |-> b,
                    left |-> r.left, right |-> r.right, result |-> r.result]
    /\ UNCHANGED <<inputWeights, hiddenWeights, learningRate, verbose, file, calls, main>>

\* A caller computes a ^ (b - c) and (a ^ b) - (a ^ c), b ^ a and a - a.
Distribute(a, b, c) ==
    /\ last.op = "construct"
    /\ WellTyped("hadamard", a, b) /\ WellTyped("subtract", b, c)
    /\ last' = [op |-> "distribute", a |-> a, b |-> b, c |-> c,
                ab     |-> Hadamard(a, b),
                ba     |-> Hadamard(b, a),
                inner  |-> Hadamard(a, Subtract(b, c)),
                outer  |-> Subtract(Hadamard(a, b), Hadamard(a, c)),
                aa     |-> Subtract(a, a)]
    /\ UNCHANGED <<inputWeights, hiddenWeights, learningRate, verbose, file, calls, main>>

\* The largest magnitude of an argument of the activation, in units.
MaxArgument == 20

\* The arguments the activation is applied to: the half units up to
\* MaxArgument either side of 0, the values next to 0 and the draws.
Arguments ==
    { k * (Scale \div 2) : k \in -2 * MaxArgument .. 2 * MaxArgument }
        \cup { -1, 1 } \cup { Draws[d] : d \in DOMAIN Draws }

\* A call of sigmoid(x) and of sigmoid(x, true), as activate makes for an
\* entry x of its operand.
SigmoidCall(x) ==
    /\ last.op = "construct"
    /\ last' = [op |-> "sigmoid", x |-> x,
                value |-> Sigmoid(x, FALSE), slope |-> Sigmoid(x, TRUE)]
    /\ UNCHANGED <<inputWeights, hiddenWeights, learningRate, verbose, file, calls, main>>

NextOps ==
    \/ \E op \in MatrixOps, sa \in Shapes, sb \in Shapes :
           \E a \in Operands(sa), b \in Operands(sb) : Operate(op, a, b)
    \/ \E sh \in Shapes : \E a \in Operands(sh), b \in Operands(sh), c \in Operands(sh) :
           Distribute(a, b, c)
    \/ \E x \in Arguments : SigmoidCall(x)

SpecOps == Init /\ [][NextOps]_vars

(***************************************************************************)
(* SpecMain: a run of the driver (main.cpp): the network is constructed and *)
(* the records parsed, then the weights are loaded or trained, dumped if    *)
(* asked, and every record is queried.                                      *)
(***************************************************************************)
\* What weights.data may hold when the driver starts: what an earlier run
\* dumped, or one of a few other texts.
MainContents ==
    FewContents
        \cup { DumpText(RandomMatrix(HiddenSize, InputSize, p[2]),
                        RandomMatrix(OutputSize, HiddenSize, p[1])) : p \in SeedPairs }
        \cup { << "1", "e", "9", "9", "9", " " >> }

MainFiles ==
    { [NoFile EXCEPT !.writable = w] : w \in BOOLEAN }
        \cup { [exists |-> TRUE, writable |-> w, data |-> d] :
                   w \in BOOLEAN, d \in MainContents }

\* main up to the lambda of trainTime: the flags -d and -l read, the network
\* constructed and the training set parsed.
MainInit ==
    /\ learningRate = LearningRate
    /\ verbose \in BOOLEAN
    /\ \E p \in SeedPairs :
           /\ inputWeights = RandomMatrix(HiddenSize, InputSize, p[1])
           /\ hiddenWeights = RandomMatrix(OutputSize, HiddenSize, p[2])
    /\ file \in MainFiles
    /\ calls = 0
    /\ last = [op |-> "construct"]
    /\ \E dumpWeights \in BOOLEAN, loadWeights \in BOOLEAN, trainingSet \in DriverSets :
           main = [pc |-> "train", dumpWeights |-> dumpWeights,
                   loadWeights |-> loadWeights, trainingSet |-> trainingSet,
                   constructed |-> [iw |-> inputWeights, hw |-> hiddenWeights],
                   loadRet |-> "none", trains |-> 0, labelNumber |-> 1, count |-> 0]

\* MainLoad with the return taken whatever loadWeightsFromFile answered: a
\* fault that C23 excludes.
MainLoadAlwaysReturns ==
    /\ main.pc = "train" /\ main.loadWeights /\ main.loadRet = "none"
    /\ \E r \in {LoadWeightsFromFile(inputWeights, hiddenWeights, file)} :
           /\ inputWeights' = r.iw
           /\ hiddenWeights' = r.hw
           /\ last' = [op |-> "load", pre |-> Fields, ret |-> r.ret,
                       exists |-> file.exists, content |-> file.data,
                       consumed |-> r.stream.pos - 1]
           /\ main' = [main EXCEPT !.loadRet = r.ret,
                                   !.pc = IF r.ret = "throws" THEN "terminated" ELSE "dump"]
    /\ calls' = calls + 1
    /\ UNCHANGED <<learningRate, verbose, file>>

\* if (loadWeights && network.loadWeightsFromFile(weightsFile)) return;
\* with loadWeights set: on true the lambda returns, on false it goes on to
\* train, and an exception that leaves the call ends the program.
MainLoad ==
    /\ main.pc = "train" /\ main.loadWeights /\ main.loadRet = "none"
    /\ \E r \in {LoadWeightsFromFile(inputWeights, hiddenWeights, file)} :
           /\ inputWeights' = r.iw
           /\ hiddenWeights' = r.hw
           /\ last' = [op |-> "load", pre |-> Fields, ret |-> r.ret,
                       exists |-> file.exists, content |-> file.data,
                       consumed |-> r.stream.pos - 1]
           /\ main' = [main EXCEPT !.loadRet = r.ret,
                                   !.pc = CASE r.ret = "true"   -> "dump"
                                            [] r.ret = "false"  -> "train"
                                            [] r.ret = "throws" -> "terminated"]
    /\ calls' = calls + 1
    /\ UNCHANGED <<learningRate, verbose, file>>

\* network.train(trainingSet), reached when loadWeights is not set or the
\* load returned false.
MainTrain ==
    /\ main.pc = "train"
    /\ ~main.loadWeights \/ main.loadRet = "false"
    /\ \E r \in {TrainResult(inputWeights, hiddenWeights, learningRate, verbose,
                            main.trainingSet)} :
           /\ inputWeights' = r.iw
           /\ hiddenWeights' = r.hw
           /\ last' = [op |-> "train", trainingSet |-> main.trainingSet, pre |-> Fields,
                       out |-> r.out, steps |-> r.steps,
                       order |-> r.order]
    /\ main' = [main EXCEPT !.trains = @ + 1, !.pc = "dump"]
    /\ calls' = calls + 1
    /\ UNCHANGED <<learningRate, verbose, file>>

\* if (dumpWeights) network.dumpWeightsToFile(weightsFile); the value
\* returned is dropped.
MainDump ==
    /\ main.pc = "dump"
    /\ IF main.dumpWeights
       THEN \E r \in {DumpWeightsToFile(inputWeights, hiddenWeights, file)} :
                /\ file' = r.file
                /\ last' = [op |-> "dump", pre |-> Fields, ret |-> r.ret, before |-> file]
       ELSE UNCHANGED <<file, last>>
    /\ main' = [main EXCEPT !.pc = "query"]
    /\ UNCHANGED <<inputWeights, hiddenWeights, learningRate, verbose, calls>>

\* countCorrectPredictions: one turn of its loop.
MainQuery ==
    /\ main.pc = "query"
    /\ main.labelNumber <= Len(main.trainingSet)
    /\ \E trainingLabel \in {main.trainingSet[main.labelNumber]} :
       \E result \in {QueryResult(inputWeights, hiddenWeights, trainingLabel.input)} :
           /\ last' = [op |-> "query", input |-> trainingLabel.input, pre |-> Fields,
                       ret |-> result]
           /\ main' = [main EXCEPT !.labelNumber = @ + 1,
                                   !.count = IF trainingLabel.value = result
                                             THEN @ + 1 ELSE @]
    /\ UNCHANGED <<inputWeights, hiddenWeights, learningRate, verbose, file, calls>>

\* The loop of countCorrectPredictions ended: the statistics are printed and
\* main returns.
MainStats ==
    /\ main.pc = "query"
    /\ main.labelNumber > Len(main.trainingSet)
    /\ main' = [main EXCEPT !.pc = "done"]
    /\ UNCHANGED <<inputWeights, hiddenWeights, learningRate, verbose, file, calls, last>>

NextMain ==
    \/ MainLoad
    \/ MainTrain
    \/ MainDump
    \/ MainQuery
    \/ MainStats

SpecMain == MainInit /\ [][NextMain]_vars

(***************************************************************************)
(* SpecParse: parseTrainingSet (main.cpp): the lines of the input are      *)
(* parsed one by one into the training set.  A line is the sequence of its *)
(* comma-separated fields.                                                 *)
(***************************************************************************)
\* std::stoi(token): the spaces skipped, then the digits; invalid_argument
\* when there is none.  The tokens carry no sign and at most three digits.
Stoi(token) ==
    Local(SkipSpace(token, 1), LAMBDA s :
    Local(DigitsEnd(token, s), LAMBDA e :
        IF e = s THEN [kind |-> "invalid_argument", value |-> 0]
        ELSE [kind |-> "ok", value |-> DigitsValue(token, s, e, 0)]))

\* token after the k-th std::getline(stream, token, ','): the k-th field, and
\* past the last field the token as the last successful call left it (the
\* empty string when the line is empty).
FieldAt(line, k) ==
    IF line = << >> THEN << >>
    ELSE IF k <= Len(line) THEN line[k] ELSE line[Len(line)]

\* parseInput(line): the training label, unless a std::stoi throws.
ParseLine(line) ==
    Local(Stoi(FieldAt(line, 1)), LAMBDA value :
    Local([i \in 0 .. InputSize - 1 |-> Stoi(FieldAt(line, i + 2))], LAMBDA pixel :
        IF value.kind # "ok" \/ \E i \in 0 .. InputSize - 1 : pixel[i].kind # "ok"
        THEN [kind |-> "throws"]
        ELSE [kind |-> "ok",
              trainingLabel |-> ParseInput(value.value,
                                           [i \in 0 .. InputSize - 1 |-> pixel[i].value])]))

\* The first fields of the lines: the classes, the number after the last
\* class, and a word.
ValueTokens == { DigitsOf(v) : v \in 0 .. OutputSize } \cup { << "x" >> }

\* The lines of the input: a first field and an image with one lit pixel, or
\* a first field alone.
Lines ==
    { << v >> \o [i \in 1 .. InputSize |-> IF i = p THEN << "2", "5", "5" >> ELSE << "0" >>] :
          v \in ValueTokens, p \in 1 .. InputSize }
        \cup { << << "1" >> >> }

\* The longest input parsed, in lines.
MaxLines == 2

\* main before the lambda of parseTime: the network constructed, the input
\* not yet read.
ParseInit ==
    /\ \E p \in SeedPairs : Construct(p[1], p[2])
    /\ \E input \in SeqsUpTo(Lines, MaxLines) :
           main = [pc |-> "parse", lines |-> input, read |-> << >>, trainingSet |-> << >>]

\* One turn of parseTrainingSet's loop: a line is read and its label pushed
\* back; an exception that leaves parseInput ends the program.
ParseNext ==
    /\ main.pc = "parse"
    /\ main.lines # << >>
    /\ \E r \in {ParseLine(Head(main.lines))} :
           main' = IF r.kind = "ok"
                   THEN [main EXCEPT !.lines = Tail(@),
                                     !.read = Append(@, Head(main.lines)),
                                     !.trainingSet = Append(@, r.trainingLabel)]
                   ELSE [main EXCEPT !.pc = "terminated"]
    /\ UNCHANGED <<inputWeights, hiddenWeights, learningRate, verbose, file, calls, last>>

\* std::getline(std::cin, line) fails at the end of the input:
\* parseTrainingSet returns the training set.
ParseEnd ==
    /\ main.pc = "parse"
    /\ main.lines = << >>
    /\ main' = [main EXCEPT !.pc = "parsed"]
    /\ UNCHANGED <<inputWeights, hiddenWeights, learningRate, verbose, file, calls, last>>

NextParse ==
    \/ ParseNext
    \/ ParseEnd

SpecParse == ParseInit /\ [][NextParse]_vars

(***************************************************************************)
(* Properties of loadWeightsFromFile and dumpWeightsToFile (SpecPersist).  *)
(***************************************************************************)
\* The number of entries the network's shapes require.
TotalEntries == HiddenSize * InputSize + OutputSize * HiddenSize

\* The entries a text holds: its maximal runs of characters that are neither
\* the separator nor the line break.
RECURSIVE EntriesFrom(_, _, _, _)
EntriesFrom(c, i, cur, acc) ==
    IF i > Len(c) THEN (IF cur = << >> THEN acc ELSE Append(acc, cur))
    ELSE IF IsSpace(c[i])
    THEN EntriesFrom(c, i + 1, << >>, IF cur = << >> THEN acc ELSE Append(acc, cur))
    ELSE EntriesFrom(c, i + 1, Append(cur, c[i]), acc)

Entries(c) == EntriesFrom(c, 1, << >>, << >>)

\* The text t is, as a whole, a real number a double holds.
ParsesWhole(t) == Stod(t).kind = "ok" /\ Stod(t).end = Len(t) + 1

\* A call of loadWeightsFromFile was the last call made on the network.
Loaded == last.op = "load"

\* C1: whenever loadWeightsFromFile returns false, inputWeights and
\* hiddenWeights hold, entry for entry, the values they held before the call.
C1_FailedLoadKeepsWeights ==
    (Loaded /\ last.ret = "false") =>
        /\ \A i \in 0 .. HiddenSize - 1, j \in 0 .. InputSize - 1 :
               inputWeights[i][j] = last.pre.iw[i][j]
        /\ \A i \in 0 .. OutputSize - 1, j \in 0 .. HiddenSize - 1 :
               hiddenWeights[i][j] = last.pre.hw[i][j]

\* C2: loadWeightsFromFile reports failure, and never success, whenever the
\* content holds fewer entries than the shapes require, wherever the content
\* ends: after a separator, or at the end of a number with no separator
\* after it.
C2_ShortContentFails ==
    (Loaded /\ last.exists /\ Len(Entries(last.content)) < TotalEntries) =>
        last.ret # "true"

\* C3: loadWeightsFromFile reports failure, and never success, when the
\* content holds more entries than the shapes require; a load that returns
\* true has consumed every entry of the content.
C3_LongContentFails ==
    (Loaded /\ last.exists /\ Len(Entries(last.content)) > TotalEntries) =>
        /\ last.ret # "true"
        /\ Entries(SubSeq(last.content, last.consumed + 1, Len(last.content))) = << >>

\* C4: when one of the entries read is not, as a whole, a real number a double
\* holds (text that is no number, a number followed by other characters, a
\* number out of range), loadWeightsFromFile returns false: the entry is
\* never stored as a weight, and no exception leaves the call.
C4_BadTokenFails ==
    (Loaded /\ last.exists
       /\ \E k \in 1 .. Len(Entries(last.content)) :
              k <= TotalEntries /\ ~ParsesWhole(Entries(last.content)[k])) =>
        last.ret = "false"

\* C5: the content dumpWeightsToFile wrote, loaded into a network of the same
\* sizes, returns true and sets every entry of inputWeights and hiddenWeights
\* to the value the dumping network held at that position.
C5_DumpLoadRoundTrip ==
    (Loaded /\ last.exists /\ last.content = DumpText(last.pre.iw, last.pre.hw)) =>
        /\ last.ret = "true"
        /\ \A i \in 0 .. HiddenSize - 1, j \in 0 .. InputSize - 1 :
               inputWeights[i][j] = last.pre.iw[i][j]
        /\ \A i \in 0 .. OutputSize - 1, j \in 0 .. HiddenSize - 1 :
               hiddenWeights[i][j] = last.pre.hw[i][j]

(***************************************************************************)
(* Properties of train and query (SpecNet), written entry by entry.        *)
(***************************************************************************)
\* f[0] + ... + f[n - 1]
RECURSIVE SumTo(_, _)
SumTo(f, n) == IF n = 0 THEN 0 ELSE SumTo(f, n - 1) + f[n - 1]

\* The forward pass for weights iw, hw and the input column x: the hidden
\* layer's and the output layer's pre-activation values and activations.
HiddenInputAt(iw, x, h) ==
    SumTo([i \in 0 .. InputSize - 1 |-> Mul(iw[h][i], x[i][0])], InputSize)

HiddenOutputAt(iw, x, h) == Logistic(HiddenInputAt(iw, x, h))

OutputInputAt(iw, hw, x, o) ==
    SumTo([h \in 0 .. HiddenSize - 1 |-> Mul(hw[o][h], HiddenOutputAt(iw, x, h))],
          HiddenSize)

OutputAt(iw, hw, x, o) == Logistic(OutputInputAt(iw, hw, x, o))

\* The activation's derivative at the pre-activation value z.
LogisticSlope(z) == Mul(Logistic(z), Scale - Logistic(z))

\* A call of train was the last call made on the network.
Trained == last.op = "train"

\* The weights before the k-th label of the last train was processed.
Before(k) ==
    IF k = 1 THEN [iw |-> last.pre.iw, hw |-> last.pre.hw] ELSE last.steps[k - 1]

\* The k-th label's errors at output o and, carried back, at hidden node h.
OutputErrorAt(k, o) ==
    last.trainingSet[k].label[o][0]
        - OutputAt(Before(k).iw, Before(k).hw, last.trainingSet[k].input, o)

HiddenErrorAt(k, h) ==
    SumTo([o \in 0 .. OutputSize - 1 |-> Mul(Before(k).hw[o][h], OutputErrorAt(k, o))],
          OutputSize)

\* C6: for each label train processes, hiddenWeights' = hiddenWeights -
\* learningRate * (hadamard(-(label - output), act'(outputInput)) x
\* transpose(hiddenOutput)) and inputWeights' = inputWeights - learningRate *
\* (hadamard(-hiddenErrors, act'(hiddenInput)) x transpose(input)), with
\* hiddenErrors = transpose(hiddenWeights) x (label - output); every quantity
\* on the right is computed from the weights before either update, and the
\* derivatives are taken at the pre-activation values.
C6_UpdateFormulas ==
    Trained =>
        \A k \in 1 .. Len(last.trainingSet) :
            LET w == Before(k)
                x == last.trainingSet[k].input
            IN  /\ \A o \in 0 .. OutputSize - 1, h \in 0 .. HiddenSize - 1 :
                       last.steps[k].hw[o][h] =
                           w.hw[o][h]
                             - Mul(Mul(Mul(-OutputErrorAt(k, o),
                                           LogisticSlope(OutputInputAt(w.iw, w.hw, x, o))),
                                       HiddenOutputAt(w.iw, x, h)),
                                   last.pre.lr)
                /\ \A h \in 0 .. HiddenSize - 1, i \in 0 .. InputSize - 1 :
                       last.steps[k].iw[h][i] =
                           w.iw[h][i]
                             - Mul(Mul(Mul(-HiddenErrorAt(k, h),
                                           LogisticSlope(HiddenInputAt(w.iw, x, h))),
                                       x[i][0]),
                                   last.pre.lr)

\* C6 happens: a train of two labels, each of which changed both matrices.
C6_Witness ==
    /\ Trained
    /\ Len(last.trainingSet) = 2
    /\ \A k \in 1 .. 2 : last.steps[k].iw # Before(k).iw /\ last.steps[k].hw # Before(k).hw

\* The weights after the labels of s, one after the other, from the weights w.
RECURSIVE FoldLabels(_, _, _)
FoldLabels(w, lr, s) ==
    IF s = << >> THEN w
    ELSE LET u == FoldLabels(w, lr, SubSeq(s, 1, Len(s) - 1))
         IN  TrainExample(u.iw, u.hw, lr, s[Len(s)])

\* The weights after train(s) on a network with the weights w.
TrainedFrom(w, s) ==
    LET r == TrainResult(w.iw, w.hw, last.pre.lr, last.pre.verbose, s)
    IN  [iw |-> r.iw, hw |-> r.hw]

\* C7: train makes one pass: every label is processed once, in order, from
\* the weights the label before it left; so train(s1 \o s2) ends with the
\* weights of train(s1) followed by train(s2), and train of no labels leaves
\* the weights as they were.
C7_OnePassInOrder ==
    Trained =>
        LET s   == last.trainingSet
            w0  == [iw |-> last.pre.iw, hw |-> last.pre.hw]
            now == [iw |-> inputWeights, hw |-> hiddenWeights]
        IN  /\ Len(last.steps) = Len(s)
            /\ \A k \in 1 .. Len(s) :
                   last.steps[k] = TrainExample(Before(k).iw, Before(k).hw, last.pre.lr, s[k])
            /\ now = FoldLabels(w0, last.pre.lr, s)
            /\ \A j \in 0 .. Len(s) :
                   now = TrainedFrom(TrainedFrom(w0, SubSeq(s, 1, j)),
                                     SubSeq(s, j + 1, Len(s)))
            /\ (s = << >>) => (now = w0)

\* C7 happens: a train of two different labels, whose order matters.
C7_Witness ==
    /\ Trained
    /\ Len(last.trainingSet) = 2
    /\ last.trainingSet[1] # last.trainingSet[2]
    /\ [iw |-> inputWeights, hw |-> hiddenWeights]
         # FoldLabels([iw |-> last.pre.iw, hw |-> last.pre.hw], last.pre.lr,
                      << last.trainingSet[2], last.trainingSet[1] >>)

\* A call of query was the last call made on the network.
Queried == last.op = "query"

\* The output entry o of the last query.
QueriedOutput(o) == OutputAt(last.pre.iw, last.pre.hw, last.input, o)

\* C8: query(input) returns the smallest index r in [0, OutputSize) with
\* output[r] >= output[i] for every i, where output = activate(hiddenWeights
\* x activate(inputWeights x input)).
C8_QueryLowestArgmax ==
    Queried =>
        /\ last.ret \in 0 .. OutputSize - 1
        /\ \A i \in 0 .. OutputSize - 1 : QueriedOutput(last.ret) >= QueriedOutput(i)
        /\ \A q \in 0 .. last.ret - 1 :
               \E i \in 0 .. OutputSize - 1 : QueriedOutput(q) < QueriedOutput(i)

\* C8 happens: a query whose highest output is held by two entries.
C8_Witness ==
    /\ Queried
    /\ \E i, j \in 0 .. OutputSize - 1 :
           /\ i < j
           /\ QueriedOutput(i) = QueriedOutput(j)
           /\ \A o \in 0 .. OutputSize - 1 : QueriedOutput(i) >= QueriedOutput(o)
           /\ last.ret = i

(***************************************************************************)
(* What the calls leave alone (Spec).                                      *)
(***************************************************************************)
\* C9: in every sequence of calls, query and dumpWeightsToFile leave
\* inputWeights, hiddenWeights, learningRate and verbose unchanged; the weight
\* matrices change only during train or loadWeightsFromFile.
C9_QueryAndDumpKeepFields ==
    [][/\ (last' # last /\ last'.op \in {"query", "dump"}) =>
              /\ inputWeights' = inputWeights
              /\ hiddenWeights' = hiddenWeights
              /\ learningRate' = learningRate
              /\ verbose' = verbose
       /\ (inputWeights' # inputWeights \/ hiddenWeights' # hiddenWeights) =>
              /\ last'.op \in {"train", "load"}
              /\ calls' = calls + 1]_vars

\* C9 happens: a dump, after a train or a load changed the weights, of a
\* network whose fields are those it had before the dump.
C9_Witness ==
    /\ last.op = "dump"
    /\ calls > 0
    /\ file.exists /\ file.data = DumpText(inputWeights, hiddenWeights)
    /\ inputWeights # RandomMatrix(HiddenSize, InputSize, 0)
    /\ last.pre = Fields

(***************************************************************************)
(* Element access (SpecMatrix).                                            *)
(***************************************************************************)
\* The matrix the last access read.
AccessedMatrix == IF last.matrix = "inputWeights" THEN inputWeights ELSE hiddenWeights

Operated == last.op \in MatrixOps

\* m has N rows and M columns.
HasShape(m, N, M) ==
    /\ DOMAIN m = 0 .. N - 1
    /\ \A i \in 0 .. N - 1 : DOMAIN m[i] = 0 .. M - 1

\* C11: no matrix operation (transpose, subtract, Hadamard product, scalar
\* multiplication, matrix product, negation, activate) changes an entry of an
\* operand; the matrix returned is a value of its own, computed from the
\* operands as they were, also when one matrix is passed as both operands.
C11_OperandsKept ==
    Operated =>
        /\ last.left = last.a
        /\ last.right = last.b
        /\ (last.op = "subtract" /\ last.a = last.b) =>
               \A i \in DOMAIN last.a : \A j \in DOMAIN last.a[i] : last.result[i][j] = 0
        /\ (last.op = "hadamard" /\ last.a = last.b) =>
               \A i \in DOMAIN last.a : \A j \in DOMAIN last.a[i] :
                   last.result[i][j] = Mul(last.a[i][j], last.a[i][j])

\* C11 happens: a Hadamard product of a matrix with itself, which returned
\* another matrix.
C11_Witness ==
    /\ last.op = "hadamard"
    /\ last.a = last.b
    /\ last.result # last.a
    /\ last.left = last.a

\* C12: the product of an N x K matrix A and a K x M matrix B is the N x M
\* matrix with result[i][j] the sum over k in [0, K) of A[i][k] * B[k][j];
\* operands whose inner dimensions differ produce no result.
C12_MatrixProduct ==
    (last.op = "multiply") =>
        /\ Cols(last.a) = Rows(last.b)
        /\ HasShape(last.result, Rows(last.a), Cols(last.b))
        /\ \A i \in 0 .. Rows(last.a) - 1, j \in 0 .. Cols(last.b) - 1 :
               last.result[i][j] =
                   SumTo([k \in 0 .. Cols(last.a) - 1 |-> Mul(last.a[i][k], last.b[k][j])],
                         Cols(last.a))

\* C12 happens: a product with an inner dimension of two or more, of which an
\* entry is no single term of its sum.
C12_Witness ==
    /\ last.op = "multiply"
    /\ Cols(last.a) >= 2
    /\ \A k \in 0 .. Cols(last.a) - 1 :
           last.result[0][0] # Mul(last.a[0][k], last.b[k][0])

\* C13: the transpose of an N x M matrix A is the M x N matrix with
\* result[j][i] = A[i][j], and the transpose of the transpose is A, entry for
\* entry.
C13_Transpose ==
    (last.op = "transpose") =>
        /\ HasShape(last.result, Cols(last.a), Rows(last.a))
        /\ \A i \in 0 .. Rows(last.a) - 1, j \in 0 .. Cols(last.a) - 1 :
               last.result[j][i] = last.a[i][j]
        /\ \A i \in 0 .. Rows(last.a) - 1, j \in 0 .. Cols(last.a) - 1 :
               Transpose(last.result)[i][j] = last.a[i][j]

\* C13 happens: the transpose of a matrix that is not square and whose
\* entries differ.
C13_Witness ==
    /\ last.op = "transpose"
    /\ Rows(last.a) # Cols(last.a)
    /\ \E i \in DOMAIN last.a : \E j, k \in DOMAIN last.a[i] : last.a[i][j] # last.a[i][k]
    /\ HasShape(last.result, Cols(last.a), Rows(last.a))

\* The entries of m1 and m2, of one shape, differ by at most d.
Within(m1, m2, d) ==
    \A i \in DOMAIN m1 : \A j \in DOMAIN m1[i] : Abs(m1[i][j] - m2[i][j]) <= d

NoZeroInRange(m) ==
    \A i \in DOMAIN m : \A j \in DOMAIN m[i] :
        m[i][j] # 0 /\ m[i][j] >= -Scale /\ m[i][j] <= Scale

\* C15: every entry of a matrix returned by randomMatrix lies in [-1, 1] and
\* is not 0 (a drawn 0 becomes 0.01); so the weight matrices of a freshly
\* constructed network hold no zero entry.
C15_RandomMatrixNoZero ==
    /\ (last.op = "construct") => (NoZeroInRange(inputWeights) /\ NoZeroInRange(hiddenWeights))
    /\ \A shape \in Shapes : \A seed \in Seeds :
           /\ HasShape(RandomMatrix(shape[1], shape[2], seed), shape[1], shape[2])
           /\ NoZeroInRange(RandomMatrix(shape[1], shape[2], seed))

\* C15 happens: a freshly constructed network with a weight that was drawn
\* as 0 and holds 0.01.
C15_Witness ==
    /\ last.op = "construct"
    /\ \E i \in DOMAIN inputWeights : \E j \in DOMAIN inputWeights[i] :
           inputWeights[i][j] = Scale \div 100
    /\ NoZeroInRange(hiddenWeights)

(***************************************************************************)
(* Safety of train and query (SpecNet).                                    *)
(***************************************************************************)
\* The access t is within its matrix: it neither throws nor reads past a row.
InBounds(t) == \A r \in At(t.m, t.i, t.j) : r.kind = "ok"

\* C16: train and query never fail on well-formed input: every element access
\* made inside query and train is within bounds, and both complete (query
\* with a class index, train with one step for each label).
C16_TrainQueryInBounds ==
    /\ Queried =>
           /\ \A t \in QueryAccesses(last.pre.iw, last.pre.hw, last.input) : InBounds(t)
           /\ last.ret \in 0 .. OutputSize - 1
    /\ Trained =>
           /\ \A k \in 1 .. Len(last.trainingSet) :
                  \A t \in TrainExampleAccesses(Before(k).iw, Before(k).hw, last.pre.lr,
                                                last.trainingSet[k]) : InBounds(t)
           /\ Len(last.steps) = Len(last.trainingSet)
           /\ HasShape(inputWeights, HiddenSize, InputSize)
           /\ HasShape(hiddenWeights, OutputSize, HiddenSize)

\* C16 happens: a train of two labels that read the last entry of
\* inputWeights and wrote the last entry of its update.
C16_Witness ==
    /\ Trained
    /\ Len(last.trainingSet) = 2
    /\ Touch(last.pre.iw, HiddenSize - 1, InputSize - 1)
           \in TrainExampleAccesses(last.pre.iw, last.pre.hw, last.pre.lr,
                                    last.trainingSet[1])
    /\ inputWeights # last.pre.iw

C18_VerboseKeepsWeights ==
    Trained =>
        \A v \in BOOLEAN :
            \E r \in { TrainResult(last.pre.iw, last.pre.hw, last.pre.lr, v,
                                   last.trainingSet) } :
                /\ r.iw = inputWeights
                /\ r.hw = hiddenWeights
                /\ r.steps = last.steps

\* C18 happens: a train of two labels with the progress printed, which
\* changed the weights.
C18_Witness ==
    /\ Trained
    /\ last.pre.verbose
    /\ Len(last.trainingSet) = 2
    /\ Len(last.out) = 3
    /\ inputWeights # last.pre.iw
    /\ hiddenWeights # last.pre.hw

(***************************************************************************)
(* Properties of dumpWeightsToFile (Spec).                                 *)
(***************************************************************************)
\* The entries of row i of m from column j on, and the entries of m from row
\* i on, row by row.
RECURSIVE RowEntries(_, _, _)
RowEntries(m, i, j) ==
    IF j >= Cols(m) THEN << >> ELSE << m[i][j] >> \o RowEntries(m, i, j + 1)

RECURSIVE RowMajor(_, _)
RowMajor(m, i) ==
    IF i >= Rows(m) THEN << >> ELSE RowEntries(m, i, 0) \o RowMajor(m, i + 1)

\* The values printed, each followed by one space.
RECURSIVE Spaced(_)
Spaced(values) ==
    IF values = << >> THEN << >>
    ELSE FormatDouble(Head(values)) \o << " " >> \o Spaced(Tail(values))

\* The number of occurrences of the character c in the text t.
Count(t, c) == Cardinality({ k \in DOMAIN t : t[k] = c })

\* A call of dumpWeightsToFile was the last call made on the network.
Dumped == last.op = "dump"

\* The step is a call of dumpWeightsToFile on a file that can be written.
DumpStep == last'.op = "dump" /\ last' # last /\ last'.before.writable

C20_DumpReportsFailure ==
    Dumped => (last.ret = TRUE <=> last.before.writable)

(***************************************************************************)
(* Properties of the activation (SpecOps).                                 *)
(***************************************************************************)
\* The activation was the last operation applied.
Squashed == last.op = "sigmoid"

\* The largest magnitude up to which the quotient stays strictly between 0
\* and 1: the last knot but one.
StrictArgument == (Len(SigmoidKnots) - 2) * Scale

FellBack == main.pc # "none" /\ main.loadRet = "false" /\ main.trains = 1

\* C22: when the driver's attempt to load weights fails, the training that
\* follows starts from the weights the network was constructed with: no value
\* read during the failed load takes part in the fallback training or in
\* later queries.
C22_FallbackFromConstructed ==
    /\ (FellBack /\ Trained) =>
           /\ last.pre.iw = main.constructed.iw
           /\ last.pre.hw = main.constructed.hw
    /\ FellBack =>
           \E r \in { TrainResult(main.constructed.iw, main.constructed.hw, learningRate,
                                  verbose, main.trainingSet) } :
               /\ inputWeights = r.iw
               /\ hiddenWeights = r.hw

\* C23: in the driver, train is called exactly once when loading was not
\* requested or loadWeightsFromFile returned false, and not at all when a
\* requested load succeeded; the weights are dumped (when requested) and the
\* network is queried only after that step, so no query runs before a
\* completed train or a successful load.
C23_TrainOnceBeforeUse ==
    /\ main.trains \in {0, 1}
    /\ main.pc \in {"dump", "query", "done"} =>
           /\ (~main.loadWeights \/ main.loadRet = "false") => main.trains = 1
           /\ (main.loadWeights /\ main.loadRet = "true") => main.trains = 0
           /\ main.trains = 1 \/ main.loadRet = "true"
    /\ (Queried \/ Dumped) =>
           /\ main.pc \in {"query", "done"}
           /\ main.trains = 1 \/ main.loadRet = "true"
    /\ Dumped => main.dumpWeights
    /\ (main.labelNumber > 1 \/ main.count > 0) =>
           /\ main.pc \in {"query", "done"}
           /\ main.trains = 1 \/ main.loadRet = "true"

\* C23 happens: the driver's load succeeded, no train was called, the
\* weights were dumped and every record was queried.
C23_Witness ==
    /\ main.pc = "done"
    /\ main.loadWeights /\ main.loadRet = "true"
    /\ main.trains = 0
    /\ main.dumpWeights
    /\ Queried
    /\ main.labelNumber = Len(main.trainingSet) + 1
    /\ main.labelNumber > 1

(***************************************************************************)
(* The progress train reports (SpecNet).                                   *)
(***************************************************************************)
\* C24: with verbose enabled, train emits exactly one progress notification
\* per example, after that example's weight updates, carrying the counts 1,
\* 2, ..., n in order out of n, and then exactly one end-of-pass
\* notification; with verbose disabled, train emits nothing.
C24_ProgressPerExample ==
    Trained =>
        LET n == Len(last.trainingSet)
        IN  IF last.pre.verbose
            THEN /\ Len(last.out) = n + 1
                 /\ \A k \in 1 .. n :
                        last.out[k] = [title |-> "Training Network", count |-> k, total |-> n]
                 /\ last.out[n + 1].title = "end"
                 /\ Len(last.order) = 2 * n + 1
                 /\ \A k \in 1 .. n :
                        /\ last.order[2 * k - 1] = "weights"
                        /\ last.order[2 * k] = "console"
                 /\ last.order[2 * n + 1] = "console"
            ELSE /\ last.out = << >>
                 /\ last.order = [k \in 1 .. n |-> "weights"]

\* C24 happens: a train of two labels with verbose enabled, which reported
\* 1 of 2, 2 of 2 and the end of the pass.
C24_Witness ==
    /\ Trained
    /\ last.pre.verbose
    /\ Len(last.trainingSet) = 2
    /\ last.out[2].count = 2 /\ last.out[2].total = 2
    /\ last.out[3].title = "end"
    /\ last.order = << "weights", "console", "weights", "console", "console" >>

(***************************************************************************)
(* Properties of the training set parsed (SpecParse).                      *)
(***************************************************************************)
\* C25: every TrainingLabel built by parseInput and placed in the training
\* set has value in [0, OutputSize) and a label vector with 1.0 at index
\* value and 0.01 at every other index (exactly one entry equal to 1.0), and
\* the training set keeps the records in the order they were read.
C25_LabelsOneHotInOrder ==
    main.pc \in {"parse", "parsed", "terminated"} =>
        /\ Len(main.trainingSet) = Len(main.read)
        /\ \A k \in 1 .. Len(main.trainingSet) :
               LET t == main.trainingSet[k]
               IN  /\ t.value \in 0 .. OutputSize - 1
                   /\ \A i \in 0 .. OutputSize - 1 :
                          t.label[i][0] = IF i = t.value THEN Scale ELSE Scale \div 100
                   /\ Cardinality({ i \in 0 .. OutputSize - 1 : t.label[i][0] = Scale }) = 1
                   /\ t = ParseLine(main.read[k]).trainingLabel

(***************************************************************************)
(* The order in which loadWeightsFromFile fills the weights (SpecPersist). *)
(***************************************************************************)
\* The tokens of a text: its pieces between the separators, and what follows
\* the last separator when that is not empty.
RECURSIVE TokensFrom(_, _, _, _)
TokensFrom(c, i, cur, acc) ==
    IF i > Len(c) THEN (IF cur = << >> THEN acc ELSE Append(acc, cur))
    ELSE IF c[i] = " " THEN TokensFrom(c, i + 1, << >>, Append(acc, cur))
    ELSE TokensFrom(c, i + 1, Append(cur, c[i]), acc)

Tokens(c) == TokensFrom(c, 1, << >>, << >>)

\* C26: a successful loadWeightsFromFile fills the matrices in the order the
\* content lists them: the first HiddenSize * InputSize tokens go to
\* inputWeights row by row, the following OutputSize * HiddenSize tokens go
\* to hiddenWeights row by row, every entry of both matrices is overwritten,
\* and the resulting weights do not depend on the weights held before.
C26_LoadFillsInOrder ==
    (Loaded /\ last.ret = "true") =>
        LET t == Tokens(last.content)
        IN  /\ Len(t) >= TotalEntries
            /\ \A i \in 0 .. HiddenSize - 1, j \in 0 .. InputSize - 1 :
                   inputWeights[i][j] = Stod(t[i * InputSize + j + 1]).value
            /\ \A i \in 0 .. OutputSize - 1, j \in 0 .. HiddenSize - 1 :
                   hiddenWeights[i][j] =
                       Stod(t[HiddenSize * InputSize + i * HiddenSize + j + 1]).value

====
